---- MODULE Spec2Model ----
(***************************************************************************)
(* The document processing pipeline of docuai: the Celery tasks            *)
(* process_document and reprocess_document (backend/app/tasks/process.py), *)
(* the ingestion and reprocess endpoints that enqueue them                 *)
(* (backend/app/api/documents.py), the relational rows they write          *)
(* (backend/app/models.py) and the queue configuration                     *)
(* (backend/celery_app.py).                                                *)
(*                                                                         *)
(* A task works inside one SQLAlchemy session: session.flush() sends its   *)
(* statements into the session's open transaction, session.commit() makes  *)
(* them durable, session.rollback() or a lost connection discards them.    *)
(* The committed rows are the variables status, content, logs, tags and    *)
(* docTags; what a running task has flushed and not committed is tx[w].    *)
(* Other transactions read committed rows only (PostgreSQL READ COMMITTED). *)
(*                                                                         *)
(* The query side is examined apart from the pipeline, over a corpus that  *)
(* stays as it is: the hybrid search of POST /documents/search             *)
(* (SearchSpec) and the question answering of POST /chat with              *)
(* RAGService.answer (ChatSpec, backend/app/services/rag.py).              *)
(*                                                                         *)
(* Examined alone as well: the ingestion triggers step by step             *)
(* (IngestSpec, backend/app/services/watcher.py and upload_documents),     *)
(* ClassifierService.classify (ClassifySpec), EmbeddingService.chunk_text  *)
(* (ChunkSpec) and the thumbnail stage's file information (ThumbSpec).     *)
(***************************************************************************)
EXTENDS Integers, Sequences, FiniteSets, Bags, TLC

\* ------------------------------------------------------------------ bounds
MaxDocs == 2              \* documents ever ingested
NumWorkers == 2           \* worker processes of the pool
MaxEvents == 2            \* reprocess requests, crashes and raised exceptions

\* max_retries of both tasks
MaxRetries == 3

Docs == 1..MaxDocs
Workers == 1..NumWorkers

\* ------------------------------------------------------------ _slugify
\* Names and slugs are sequences of one-character strings.
Lower(c) == IF c = "T" THEN "t" ELSE IF c = "A" THEN "a" ELSE c

IsSpace(c) == c = " "

IsWordChar(c) == c \in {"t", "a", "x", "b", "T", "A", "_"}

RECURSIVE LStrip(_, _)
LStrip(s, drop) ==
    IF s # <<>> /\ Head(s) \in drop THEN LStrip(Tail(s), drop) ELSE s

RECURSIVE RStrip(_, _)
RStrip(s, drop) ==
    IF s # <<>> /\ s[Len(s)] \in drop
    THEN RStrip(SubSeq(s, 1, Len(s) - 1), drop)
    ELSE s

Strip(s, drop) == RStrip(LStrip(s, drop), drop)

\* re.sub(r"[<from>]+", "-", s): every maximal run of characters of `from`
\* becomes one hyphen.
RECURSIVE SubRuns(_, _)
SubRuns(s, from) ==
    IF s = <<>> THEN <<>>
    ELSE IF Head(s) \in from
         THEN <<"-">> \o SubRuns(LStrip(s, from), from)
         ELSE <<Head(s)>> \o SubRuns(Tail(s), from)

Untitled == <<"u", "n", "t", "i", "t", "l", "e", "d">>

LowerStrip(name) == Strip([i \in 1..Len(name) |-> Lower(name[i])], {" "})

KeepSlugChar(c) == IsWordChar(c) \/ IsSpace(c) \/ c = "-"

_slugify(name) ==
    LET lowered  == LowerStrip(name)
        kept     == SelectSeq(lowered, KeepSlugChar)
        hyphened == SubRuns(kept, {" ", "_"})
        slug     == Strip(SubRuns(hyphened, {"-"}), {"-"})
    IN  IF slug = <<>> THEN Untitled ELSE slug

\* ------------------------------------------------- inputs of the pipeline
\* Tag names a classification result can carry.
NameTax == <<"T", "a", "x">>
NameTaxBang == <<" ", "t", "a", "x", "!">>
NameAB == <<"A", "_", "b">>

\* The file behind Document.file_path: missing, or one of two texts.
Files == {"missing", "A", "B"}

\* result.tags of ClassifierService.classify: nothing for blank text
\* (classifier.py line 37-38), else what the model finds in the text.
classify(text) ==
    IF text \in {"null", ""} THEN <<>>
    ELSE IF text = "A" THEN <<NameTax>>
    ELSE <<NameTaxBang, NameAB>>

\* ------------------------------------------------------------------ state
VARIABLES
    status,      \* Document.status, committed       (models.py DocumentStatus)
    content,     \* Document.content, committed: "null", "" or a text
    file,        \* the file at Document.file_path
    logs,        \* ProcessingLog rows of each document, committed, in id order
    tags,        \* Tag rows, committed
    docTags,     \* DocumentTag rows, committed (a bag of <<document, tag id>>)
    fields,      \* CustomField rows, committed (a bag of <<document, field name>>)
    nextTagId,   \* the sequence behind Tag.id
    queue,       \* messages waiting in the broker (a bag)
    pc,          \* where each worker is in the task it executes
    msg,         \* the unacknowledged message a worker holds
    tx,          \* what the worker's session has flushed and not committed
    todo,        \* the tag names the classification loop has not handled yet
    run,         \* what the execution of each worker has done so far
    events,      \* reprocess requests, crashes and raised exceptions so far
    corpus,      \* what a query of the API finds: each document's scores
    searches,    \* the responses of the hybrid searches made so far
    chats,       \* the responses of the chat requests made so far
    watcher,     \* the directory watcher's handler at work on a new file
    request,     \* an upload request at work
    classified,  \* the results of the classifier calls made so far
    ck,          \* a call of chunk_text at work
    thumbs       \* the thumbnail stages applied so far

dbvars == <<status, content, logs, tags, docTags, fields>>
\* The services examined apart from the pipeline.
svcvars == <<watcher, request, classified, ck, thumbs>>
apivars == <<corpus, searches, chats, svcvars>>
vars == <<status, content, file, logs, tags, docTags, fields, nextTagId,
          queue, pc, msg, tx, todo, run, events, corpus, searches, chats,
          watcher, request, classified, ck, thumbs>>

NoMsg == [task |-> "none", doc |-> 0, retries |-> 0]

EmptyTx == [status |-> "none", content |-> "unchanged", logs |-> <<>>,
            tags |-> {}, assoc |-> EmptyBag, fields |-> EmptyBag,
            cleared |-> FALSE, ok |-> TRUE]

NoRun == [doc |-> 0, ocr |-> "none", content |-> "null", text |-> "",
          log |-> <<>>, old_fields |-> EmptyBag, fields |-> {},
          result |-> "none", escaped |-> FALSE]

Message(task, d, n) == [task |-> task, doc |-> d, retries |-> n]

\* The pipeline before any upload.
NoDocuments ==
    /\ status = [d \in Docs |-> "absent"]
    /\ content = [d \in Docs |-> "null"]
    /\ file = [d \in Docs |-> "missing"]
    /\ logs = [d \in Docs |-> <<>>]
    /\ tags = {}
    /\ docTags = EmptyBag
    /\ fields = EmptyBag
    /\ nextTagId = 1
    /\ queue = EmptyBag
    /\ pc = [w \in Workers |-> "idle"]
    /\ msg = [w \in Workers |-> NoMsg]
    /\ tx = [w \in Workers |-> EmptyTx]
    /\ todo = [w \in Workers |-> <<>>]
    /\ run = [w \in Workers |-> NoRun]
    /\ events = 0

\* previous_size = -1, waited = 0 (watcher.py lines 53-54); `size` is the
\* last result of os.path.getsize and `polls` counts its calls.
IdleWatcher == [pc |-> "idle", previous_size |-> 0 - 1, waited |-> 0,
                size |-> 0 - 1, polls |-> 0, warned |-> FALSE, doc |-> 0]

\* results = [] (documents.py line 53); `created` keeps the records the
\* request has committed and `code` the status it answered with.
IdleRequest == [pc |-> "idle", results |-> <<>>, created |-> {}, code |-> 0]

NoChunking == [pc |-> "idle", text |-> <<>>, chunk_size |-> 0, overlap |-> 0,
               start |-> 0, chunks |-> <<>>, iterations |-> 0]

\* No service is at work.
Idle ==
    /\ watcher = IdleWatcher
    /\ request = IdleRequest
    /\ classified = <<>>
    /\ ck = NoChunking
    /\ thumbs = <<>>

\* The API serves no query while the pipeline is examined.
Init ==
    /\ NoDocuments
    /\ Idle
    /\ corpus = <<>>
    /\ searches = <<>>
    /\ chats = <<>>

\* --------------------------------------------------------- the session
Entry(step, st) == [step |-> step, status |-> st]

\* _log_step: session.add(ProcessingLog(...)); session.flush()
_log_step(w, t, r, step, st) ==
    /\ tx' = [tx EXCEPT ![w] = [t EXCEPT !.logs = Append(@, Entry(step, st))]]
    /\ run' = [run EXCEPT ![w] = [r EXCEPT !.log = Append(@, Entry(step, st))]]

\* The document row is locked by the transaction that has updated it and not
\* ended: another UPDATE of the row waits for that transaction.
RowLocked(d, w) ==
    \E o \in Workers \ {w} : msg[o].doc = d /\ tx[o].status # "none"

\* The rows of bag b that belong to document d.
OfDocument(b, d) == [e \in {x \in BagToSet(b) : x[1] = d} |-> b[e]]

\* The rows of bag b that do not belong to document d.
WithoutDocument(b, d) == [e \in {x \in BagToSet(b) : x[1] # d} |-> b[e]]

\* session.commit(): the flushed statements of w become the committed rows.
Commit(w, t) ==
    LET d == msg[w].doc IN
    /\ status' = IF t.status = "none" THEN status
                 ELSE [status EXCEPT ![d] = t.status]
    /\ content' = IF t.content = "unchanged" THEN content
                  ELSE [content EXCEPT ![d] = t.content]
    /\ logs' = [logs EXCEPT ![d] = @ \o t.logs]
    /\ tags' = tags \cup t.tags
    /\ docTags' = docTags (+) t.assoc
    /\ fields' = (IF t.cleared THEN WithoutDocument(fields, d) ELSE fields)
                  (+) t.fields

\* A Tag table without the unique index on slug: no INSERT ever fails or
\* waits.
SlugNeverTaken(rows, slug) == FALSE

\* Tag.slug is unique (unique=True): an INSERT of a slug fails when a row with
\* that slug exists, and waits while the transaction of such a row is open.
SlugTaken(rows, slug) == \E t \in rows : t.slug = slug

\* Tag rows other open transactions have inserted.
UncommittedElsewhere(w) == UNION {tx[o].tags : o \in Workers \ {w}}

\* OCRService.extract_text: "" for a missing file, else the text read.
extract_text(f) == IF f = "missing" THEN "" ELSE f

\* One more of the events the model allows: a reprocess request, a crash, a
\* raised exception.
Event ==
    /\ events < MaxEvents
    /\ events' = events + 1

\* ------------------------------------------------------------ ingestion
\* upload_documents: the record is committed as pending, then the process
\* task is sent.
upload_documents(d) ==
    /\ status[d] = "absent"
    /\ \A e \in Docs : e < d => status[e] # "absent"
    /\ \E f \in Files : file' = [file EXCEPT ![d] = f]
    /\ status' = [status EXCEPT ![d] = "pending"]
    /\ queue' = queue (+) SetToBag({Message("process", d, 0)})
    /\ UNCHANGED <<content, logs, tags, docTags, fields, nextTagId, pc, msg, tx, todo,
                   run, events>>
    /\ UNCHANGED apivars

\* POST /documents/{id}/reprocess: status back to pending, reprocess task sent.
\* The UPDATE is issued only when the status changes, and then waits for a
\* transaction that holds the row.
reprocess_endpoint(d) ==
    /\ Event
    /\ status[d] # "absent"
    /\ status[d] = "pending" \/ ~RowLocked(d, 0)
    /\ status' = [status EXCEPT ![d] = "pending"]
    /\ queue' = queue (+) SetToBag({Message("reprocess", d, 0)})
    /\ UNCHANGED <<content, file, logs, tags, docTags, fields, nextTagId, pc, msg, tx,
                   todo, run>>
    /\ UNCHANGED apivars

\* doc.content or ""
ContentOrEmpty(c) == IF c = "null" THEN "" ELSE c

\* --------------------------------------------------------------- workers
\* A worker takes a message (acknowledged late: it holds it until the task
\* has returned or raised) and the task selects its document (process.py
\* lines 68-71, 248-250). The select may raise; the session is then usable
\* or not.
Start(w) ==
    /\ pc[w] = "idle"
    /\ \A o \in Workers : o < w => pc[o] # "idle"
    /\ \E m \in BagToSet(queue) :
        /\ queue' = queue (-) SetToBag({m})
        /\ msg' = [msg EXCEPT ![w] = m]
        /\ todo' = [todo EXCEPT ![w] = <<>>]
        /\ \/ /\ status[m.doc] = "absent"
              /\ pc' = [pc EXCEPT ![w] = "ended"]
              /\ run' = [run EXCEPT ![w] = [NoRun EXCEPT !.doc = m.doc,
                                                      !.result = "notfound"]]
              /\ tx' = [tx EXCEPT ![w] = EmptyTx]
              /\ UNCHANGED events
           \/ /\ status[m.doc] # "absent"
              /\ pc' = [pc EXCEPT ![w] = "begin"]
              /\ run' = [run EXCEPT ![w] = [NoRun EXCEPT
                            !.doc = m.doc,
                            !.content = content[m.doc],
                            !.text = IF m.task = "reprocess"
                                     THEN ContentOrEmpty(content[m.doc])
                                     ELSE ""]]
              /\ tx' = [tx EXCEPT ![w] = EmptyTx]
              /\ UNCHANGED events
           \/ /\ Event
              /\ pc' = [pc EXCEPT ![w] = "handler"]
              /\ run' = [run EXCEPT ![w] = [NoRun EXCEPT !.doc = m.doc,
                                                      !.escaped = TRUE]]
              /\ \E usable \in BOOLEAN :
                    tx' = [tx EXCEPT ![w] = [EmptyTx EXCEPT !.ok = usable]]
    /\ UNCHANGED <<status, content, file, logs, tags, docTags, fields, nextTagId>>
    /\ UNCHANGED apivars

\* A beginning that commits the status processing before the stages run.
PBeginCommitting(w) ==
    /\ pc[w] = "begin" /\ msg[w].task = "process"
    /\ ~RowLocked(msg[w].doc, w)
    /\ Commit(w, [tx[w] EXCEPT !.status = "processing",
                               !.logs = Append(@, Entry("start", "info"))])
    /\ tx' = [tx EXCEPT ![w] = EmptyTx]
    /\ run' = [run EXCEPT ![w] = [@ EXCEPT
                  !.log = Append(@, Entry("start", "info"))]]
    /\ pc' = [pc EXCEPT ![w] = "ocr"]
    /\ UNCHANGED <<file, nextTagId, queue, msg, todo, events>>
    /\ UNCHANGED apivars

\* process_document, lines 73-75
PBegin(w) ==
    /\ pc[w] = "begin" /\ msg[w].task = "process"
    /\ ~RowLocked(msg[w].doc, w)
    /\ _log_step(w, [tx[w] EXCEPT !.status = "processing"], run[w], "start", "info")
    /\ pc' = [pc EXCEPT ![w] = "ocr"]
    /\ UNCHANGED <<status, content, file, logs, tags, docTags, fields, nextTagId, queue,
                   msg, todo, events>>
    /\ UNCHANGED apivars

\* An OCR failure that is logged like any other stage's and lets the run go
\* on to classification.
OcrFailedContinues(w) ==
    /\ _log_step(w, tx[w], [run[w] EXCEPT !.ocr = "raise"], "ocr", "error")
    /\ pc' = [pc EXCEPT ![w] = "classify"]
    /\ UNCHANGED <<dbvars, queue>>

\* An OCR failure that commits the error and raises it again, so that it
\* reaches the handler of lines 226-236 and self.retry.
OcrFailedRetrying(w) ==
    /\ Commit(w, [tx[w] EXCEPT !.logs = Append(@, Entry("ocr", "error")),
                               !.status = "error"])
    /\ tx' = [tx EXCEPT ![w] = EmptyTx]
    /\ run' = [run EXCEPT ![w] = [@ EXCEPT !.ocr = "raise",
                  !.log = Append(@, Entry("ocr", "error")),
                  !.escaped = TRUE]]
    /\ pc' = [pc EXCEPT ![w] = "handler"]
    /\ UNCHANGED queue

\* process_document, lines 85-90: the failure of the extractor is logged,
\* status error is committed and the task returns its error result.
OcrFailed(w) ==
    /\ Commit(w, [tx[w] EXCEPT !.logs = Append(@, Entry("ocr", "error")),
                               !.status = "error"])
    /\ tx' = [tx EXCEPT ![w] = EmptyTx]
    /\ run' = [run EXCEPT ![w] = [@ EXCEPT !.ocr = "raise",
                  !.log = Append(@, Entry("ocr", "error")),
                  !.result = "error"]]
    /\ pc' = [pc EXCEPT ![w] = "ended"]
    /\ UNCHANGED queue

\* process_document, step 1 (lines 77-90): the text is stored, or the
\* extractor raises.
POcr(w) ==
    /\ pc[w] = "ocr"
    /\ \/ /\ _log_step(w, [tx[w] EXCEPT !.content = extract_text(file[msg[w].doc])],
                       [run[w] EXCEPT !.ocr = "ok",
                                      !.text = extract_text(file[msg[w].doc])],
                       "ocr", "success")
          /\ pc' = [pc EXCEPT ![w] = "classify"]
          /\ UNCHANGED <<dbvars, events, queue>>
       \/ /\ Event
          /\ OcrFailed(w)
    /\ UNCHANGED <<file, nextTagId, msg, todo>>
    /\ UNCHANGED apivars

\* What the session of w sees: the committed rows and its own flushed ones.
VisibleTags(w) == tags \cup tx[w].tags

VisibleAssoc(w) == docTags (+) tx[w].assoc

\* process_document, step 2: the classifier call (lines 93-110). A failure
\* of the stage is logged and the run continues (lines 155-158).
PClassify(w) ==
    /\ pc[w] = "classify"
    /\ \/ /\ todo' = [todo EXCEPT ![w] = classify(tx[w].content)]
          /\ pc' = [pc EXCEPT ![w] = "tags"]
          /\ UNCHANGED <<tx, run, events>>
       \/ /\ Event
          /\ _log_step(w, tx[w], run[w], "classify", "error")
          /\ pc' = [pc EXCEPT ![w] = "fields"]
          /\ UNCHANGED todo
    /\ UNCHANGED <<status, content, file, logs, tags, docTags, fields, nextTagId, queue,
                   msg>>
    /\ UNCHANGED apivars

\* session.add(DocumentTag(...)) unless the pair exists (lines 143-151)
WithAssoc(w, t, id) ==
    IF BagIn(<<msg[w].doc, id>>, docTags (+) t.assoc)
    THEN t
    ELSE [t EXCEPT !.assoc = @ (+) SetToBag({<<msg[w].doc, id>>})]

\* session.add(Tag(name, slug)); session.flush() (lines 139-141), then the
\* association
WithNewTag(w, name) ==
    LET row == [id |-> nextTagId, name |-> name, slug |-> _slugify(name)]
    IN  WithAssoc(w, [tx[w] EXCEPT !.tags = @ \cup {row}], row.id)

\* process_document, step 2: one turn of the loop over result.tags (lines
\* 133-151), and the end of the stage (lines 153-154).
PTags(w) ==
    /\ pc[w] = "tags"
    /\ IF todo[w] = <<>>
       THEN /\ _log_step(w, tx[w], run[w], "classify", "success")
            /\ pc' = [pc EXCEPT ![w] = "fields"]
            /\ UNCHANGED <<todo, nextTagId>>
       ELSE LET name == Head(todo[w])
                slug == _slugify(name)
                found == {t \in VisibleTags(w) : t.slug = slug}
            IN  IF slug = <<>>
                THEN /\ todo' = [todo EXCEPT ![w] = Tail(@)]
                     /\ UNCHANGED <<pc, tx, run, nextTagId>>
                ELSE IF Cardinality(found) > 1
                THEN \* scalar_one_or_none raises MultipleResultsFound
                     /\ _log_step(w, tx[w], run[w], "classify", "error")
                     /\ pc' = [pc EXCEPT ![w] = "fields"]
                     /\ UNCHANGED <<todo, nextTagId>>
                ELSE IF found # {}
                THEN /\ tx' = [tx EXCEPT ![w] =
                                  WithAssoc(w, @, (CHOOSE t \in found : TRUE).id)]
                     /\ todo' = [todo EXCEPT ![w] = Tail(@)]
                     /\ UNCHANGED <<pc, run, nextTagId>>
                ELSE IF SlugTaken(UncommittedElsewhere(w), slug)
                THEN \* the INSERT waits for the other transaction to end
                     /\ pc' = [pc EXCEPT ![w] = "tagwait"]
                     /\ UNCHANGED <<tx, todo, run, nextTagId>>
                ELSE /\ tx' = [tx EXCEPT ![w] = WithNewTag(w, name)]
                     /\ nextTagId' = nextTagId + 1
                     /\ todo' = [todo EXCEPT ![w] = Tail(@)]
                     /\ UNCHANGED <<pc, run>>
    /\ UNCHANGED <<status, content, file, logs, tags, docTags, fields, queue, msg,
                   events>>
    /\ UNCHANGED apivars

\* The waiting INSERT (line 141) once the other transaction has ended. If that
\* one committed its row the flush raises IntegrityError: the transaction is
\* rolled back, and the session refuses every statement until
\* session.rollback(). The stage's handler then fails in _log_step (line 157)
\* and the exception leaves the stage loop.
PTagWait(w) ==
    /\ pc[w] = "tagwait"
    /\ ~SlugTaken(UncommittedElsewhere(w), _slugify(Head(todo[w])))
    /\ IF SlugTaken(tags, _slugify(Head(todo[w])))
       THEN /\ tx' = [tx EXCEPT ![w] = [EmptyTx EXCEPT !.ok = FALSE]]
            /\ run' = [run EXCEPT ![w] = [@ EXCEPT !.escaped = TRUE]]
            /\ pc' = [pc EXCEPT ![w] = "handler"]
            /\ UNCHANGED <<todo, nextTagId>>
       ELSE /\ tx' = [tx EXCEPT ![w] = WithNewTag(w, Head(todo[w]))]
            /\ nextTagId' = nextTagId + 1
            /\ todo' = [todo EXCEPT ![w] = Tail(@)]
            /\ pc' = [pc EXCEPT ![w] = "tags"]
            /\ UNCHANGED run
    /\ UNCHANGED <<status, content, file, logs, tags, docTags, fields, queue, msg,
                   events>>
    /\ UNCHANGED apivars

\* A stage that commits its outcome before the run goes on.
NonFatalStageCommitting(w, step, next) ==
    /\ \E st \in {"success", "error"} :
          /\ Commit(w, [tx[w] EXCEPT !.logs = Append(@, Entry(step, st))])
          /\ run' = [run EXCEPT ![w] = [@ EXCEPT
                        !.log = Append(@, Entry(step, st))]]
    /\ tx' = [tx EXCEPT ![w] = EmptyTx]
    /\ pc' = [pc EXCEPT ![w] = next]
    /\ UNCHANGED <<file, nextTagId, queue, msg, todo, events>>
    /\ UNCHANGED apivars

\* A stage that logs its success only: its failure leaves no entry.
NonFatalStageSilent(w, step, next) ==
    /\ \/ /\ _log_step(w, tx[w], run[w], step, "success")
          /\ UNCHANGED events
       \/ /\ Event
          /\ UNCHANGED <<tx, run>>
    /\ pc' = [pc EXCEPT ![w] = next]
    /\ UNCHANGED <<status, content, file, logs, tags, docTags, fields, nextTagId, queue,
                   msg, todo>>
    /\ UNCHANGED apivars

\* A stage whose failure is not fatal: its outcome is logged, success or
\* error, and the run goes on to `next`.
NonFatalStage(w, step, next) ==
    /\ \/ /\ _log_step(w, tx[w], run[w], step, "success")
          /\ UNCHANGED events
       \/ /\ Event
          /\ _log_step(w, tx[w], run[w], step, "error")
    /\ pc' = [pc EXCEPT ![w] = next]
    /\ UNCHANGED <<status, content, file, logs, tags, docTags, fields, nextTagId, queue,
                   msg, todo>>
    /\ UNCHANGED apivars

\* FieldExtractor.extract_fields: nothing for blank text; else the fields the
\* model returns, or those of the regular expressions of _fallback_extract
\* when the model cannot be reached.
extract_fields(text, reachable) ==
    IF text \in {"null", ""} THEN {}
    ELSE IF reachable THEN {"Date", "Amount"}
    ELSE {"Date"}

\* The CustomField rows a run adds for its document.
FieldRows(w, names) == SetToBag({<<msg[w].doc, n>> : n \in names})

\* The field stage of both tasks: one CustomField is added per extracted
\* field and the outcome is logged. Only with `clear` (reprocess_document,
\* lines 293-297) are the document's old rows deleted first, outside the
\* stage's try block.
FieldStage(w, step, next, clear) ==
    LET t == [tx[w] EXCEPT !.cleared = @ \/ clear,
                           !.fields = IF clear THEN EmptyBag ELSE @]
        r == [run[w] EXCEPT !.old_fields =
                 IF clear THEN OfDocument(fields, msg[w].doc) ELSE @]
        Extracted(names) ==
            _log_step(w, [t EXCEPT !.fields = @ (+) FieldRows(w, names)],
                      [r EXCEPT !.fields = names], step, "success")
    IN  /\ \/ /\ Extracted(extract_fields(run[w].text, TRUE))
              /\ UNCHANGED events
           \/ /\ run[w].text \notin {"null", ""}
              /\ Event
              /\ Extracted(extract_fields(run[w].text, FALSE))
           \/ /\ Event
              /\ _log_step(w, t, r, step, "error")
        /\ pc' = [pc EXCEPT ![w] = next]
        /\ UNCHANGED <<dbvars, file, nextTagId, queue, msg, todo>>
        /\ UNCHANGED apivars

\* A first-time field stage that deletes the document's old rows as the
\* reprocess one does.
PFieldsClearing(w) ==
    pc[w] = "fields" /\ FieldStage(w, "fields", "embed", TRUE)

\* process_document, step 3 (lines 160-177)
PFields(w) ==
    pc[w] = "fields" /\ FieldStage(w, "fields", "embed", FALSE)

\* process_document, step 4 (lines 179-189)
PEmbed(w) == pc[w] = "embed" /\ NonFatalStage(w, "embeddings", "thumb")

\* process_document, step 5 (lines 191-215)
PThumb(w) == pc[w] = "thumb" /\ NonFatalStage(w, "thumbnail", "complete")

\* The last statements of a task: status done, the closing log entry, commit.
Complete(w, step) ==
    /\ Commit(w, [tx[w] EXCEPT !.status = "done",
                               !.logs = Append(@, Entry(step, "success"))])
    /\ tx' = [tx EXCEPT ![w] = EmptyTx]
    /\ run' = [run EXCEPT ![w] = [@ EXCEPT
                  !.log = Append(@, Entry(step, "success")),
                  !.result = "done"]]
    /\ pc' = [pc EXCEPT ![w] = "ended"]
    /\ UNCHANGED <<file, nextTagId, queue, msg, todo, events>>
    /\ UNCHANGED apivars

\* process_document, lines 217-224
PComplete(w) == pc[w] = "complete" /\ Complete(w, "complete")

\* self.retry(exc=e, countdown=60): the task is sent again with retries + 1
\* unless max_retries is reached, and the exception is raised to the worker.
Retry(w, r) ==
    IF msg[w].retries < MaxRetries
    THEN /\ queue' = queue (+) SetToBag({Message(msg[w].task, msg[w].doc,
                                                 msg[w].retries + 1)})
         /\ run' = [run EXCEPT ![w] = [r EXCEPT !.result = "retry"]]
    ELSE /\ queue' = queue
         /\ run' = [run EXCEPT ![w] = [r EXCEPT !.result = "failed"]]

\* The handler of an exception that left the stage loop. A usable session
\* sets status error (with a `fatal` entry when `logged`) and commits what
\* the run had flushed; a session that refuses statements is rolled back.
\* Either way the task asks for its retry.
Handler(w, logged) ==
    LET fatal == IF logged THEN <<Entry("fatal", "error")>> ELSE <<>> IN
    /\ pc[w] = "handler"
    /\ IF tx[w].ok
       THEN /\ tx[w].status # "none" \/ ~RowLocked(msg[w].doc, w)
            /\ Commit(w, [tx[w] EXCEPT !.status = "error", !.logs = @ \o fatal])
            /\ Retry(w, [run[w] EXCEPT !.log = @ \o fatal])
       ELSE /\ UNCHANGED dbvars
            /\ Retry(w, run[w])
    /\ tx' = [tx EXCEPT ![w] = EmptyTx]
    /\ pc' = [pc EXCEPT ![w] = "ended"]
    /\ UNCHANGED <<file, nextTagId, msg, todo, events>>
    /\ UNCHANGED apivars

\* process_document, lines 226-236
PHandler(w) == msg[w].task = "process" /\ Handler(w, TRUE)

\* reprocess_document, lines 334-343
RHandler(w) == msg[w].task = "reprocess" /\ Handler(w, FALSE)

\* reprocess_document, lines 252-254
RBegin(w) ==
    /\ pc[w] = "begin" /\ msg[w].task = "reprocess"
    /\ ~RowLocked(msg[w].doc, w)
    /\ _log_step(w, [tx[w] EXCEPT !.status = "processing"], run[w],
                 "reprocess_start", "info")
    /\ pc' = [pc EXCEPT ![w] = "rocr"]
    /\ UNCHANGED <<status, content, file, logs, tags, docTags, fields, nextTagId, queue,
                   msg, todo, events>>
    /\ UNCHANGED apivars

\* not (doc.content or "").strip()
IsBlank(c) == c \in {"null", ""}

\* reprocess_document, lines 256-267: OCR again only when the loaded content
\* is blank; an exception of the extractor goes to the process log only.
ROcr(w) ==
    /\ pc[w] = "rocr"
    /\ IF IsBlank(run[w].content)
       THEN \/ /\ tx' = [tx EXCEPT ![w] = [@ EXCEPT
                            !.content = extract_text(file[msg[w].doc])]]
               /\ run' = [run EXCEPT ![w] = [@ EXCEPT
                             !.ocr = "ok",
                             !.text = extract_text(file[msg[w].doc])]]
               /\ UNCHANGED events
            \/ /\ Event
               /\ run' = [run EXCEPT ![w] = [@ EXCEPT !.ocr = "raise"]]
               /\ UNCHANGED tx
       ELSE /\ run' = [run EXCEPT ![w] = [@ EXCEPT !.ocr = "skipped"]]
            /\ UNCHANGED <<tx, events>>
    /\ pc' = [pc EXCEPT ![w] = "rclassify"]
    /\ UNCHANGED <<status, content, file, logs, tags, docTags, fields, nextTagId, queue,
                   msg, todo>>
    /\ UNCHANGED apivars

\* reprocess_document, lines 269-291
RClassify(w) == pc[w] = "rclassify" /\ NonFatalStage(w, "reclassify", "rfields")

\* A reprocess field stage that keeps the document's old rows.
RFieldsKeeping(w) ==
    pc[w] = "rfields" /\ FieldStage(w, "reextract_fields", "rembed", FALSE)

\* reprocess_document, lines 293-314
RFields(w) ==
    pc[w] = "rfields" /\ FieldStage(w, "reextract_fields", "rembed", TRUE)

\* reprocess_document, lines 316-325
REmbed(w) == pc[w] = "rembed" /\ NonFatalStage(w, "reembed", "rcomplete")

\* reprocess_document, lines 327-332
RComplete(w) == pc[w] = "rcomplete" /\ Complete(w, "reprocess_complete")

\* The task has returned or raised: the worker acknowledges its message
\* (task_acks_late) and is free again.
Ack(w) ==
    /\ pc[w] = "ended"
    /\ pc' = [pc EXCEPT ![w] = "idle"]
    /\ msg' = [msg EXCEPT ![w] = NoMsg]
    /\ tx' = [tx EXCEPT ![w] = EmptyTx]
    /\ todo' = [todo EXCEPT ![w] = <<>>]
    /\ run' = [run EXCEPT ![w] = NoRun]
    /\ UNCHANGED <<status, content, file, logs, tags, docTags, fields, nextTagId, queue,
                   events>>
    /\ UNCHANGED apivars

\* What every crash does: the connection is gone, so the open transaction is
\* rolled back by the database; the worker comes back idle. run[w] keeps what
\* the run cut short had done, until the worker starts its next task.
Crashed(w) ==
    /\ pc[w] # "idle"
    /\ Event
    /\ pc' = [pc EXCEPT ![w] = "idle"]
    /\ msg' = [msg EXCEPT ![w] = NoMsg]
    /\ tx' = [tx EXCEPT ![w] = EmptyTx]
    /\ todo' = [todo EXCEPT ![w] = <<>>]
    /\ run' = [run EXCEPT ![w] = [@ EXCEPT !.result = "crashed"]]
    /\ UNCHANGED <<status, content, file, logs, tags, docTags, fields, nextTagId>>
    /\ UNCHANGED apivars

\* The whole worker dies (host or main process): its message was never
\* acknowledged, the broker delivers it again.
WorkerCrash(w) ==
    /\ Crashed(w)
    /\ queue' = queue (+) SetToBag({msg[w]})

\* Only the pool process that executes the task dies. The main process
\* acknowledges the message: task_acks_late is set, task_reject_on_worker_lost
\* is not, and a task whose process is lost is then acknowledged as failed.
ProcessLost(w) ==
    /\ Crashed(w)
    /\ queue' = queue

WorkerStep(w) ==
    \/ Start(w)
    \/ PBegin(w) \/ POcr(w) \/ PClassify(w) \/ PTags(w) \/ PTagWait(w)
    \/ PFields(w) \/ PEmbed(w) \/ PThumb(w) \/ PComplete(w) \/ PHandler(w)
    \/ RBegin(w) \/ ROcr(w) \/ RClassify(w) \/ RFields(w) \/ REmbed(w)
    \/ RComplete(w) \/ RHandler(w)
    \/ Ack(w)

Next ==
    \/ \E d \in Docs : upload_documents(d)
    \/ \E d \in Docs : reprocess_endpoint(d)
    \/ \E w \in Workers : WorkerStep(w)
    \/ \E w \in Workers : WorkerCrash(w)
    \/ \E w \in Workers : ProcessLost(w)

Spec == Init /\ [][Next]_vars

\* Workers keep executing: a worker that can take a step takes one.
FairSpec == Spec /\ \A w \in Workers : WF_vars(WorkerStep(w))

\* ------------------------------------------------------- hybrid search
\* POST /documents/search in hybrid mode (documents.py lines 398-459), for one
\* query over a corpus that does not change between the calls. Scores are in
\* tenths, combined scores in hundredths.
MaxSearchDocs == 3        \* documents of the searched corpus
MaxCalls == 2             \* searches made over the same corpus
MaxPage == 2              \* pages asked for
MaxSize == 2              \* page sizes asked for

\* The weights of the two components, in tenths
FtWeight == 4
SemWeight == 6

\* A document without the component: no full-text match, or no embedding.
Missing == 0 - 1

\* 1 - cosine_distance when the query's or the document's embedding is the
\* zero vector, which embed_text returns for blank text: not a number.
NaN == 0 - 2

FtScores == {Missing, 0, 8}
SemScores == {Missing, NaN, 0, 2, 9}

SearchDocs == 1..MaxSearchDocs

\* The corpora a query can meet.
Corpora(docs) == [docs -> [ft : FtScores, sem : SemScores]]

\* set(ft_scores.keys()) | set(sem_scores.keys())
all_ids == {d \in DOMAIN corpus :
               corpus[d].ft # Missing \/ corpus[d].sem # Missing}

\* scores.get(did, 0.0)
OrZero(x) == IF x = Missing THEN 0 ELSE x

\* ft * 0.4 + sem * 0.6
combined(d) ==
    IF corpus[d].sem = NaN THEN NaN
    ELSE FtWeight * OrZero(corpus[d].ft) + SemWeight * OrZero(corpus[d].sem)

\* x < y on floats: false when either is not a number
Less(x, y) == x # NaN /\ y # NaN /\ x < y

Reverse(s) == [i \in 1..Len(s) |-> s[Len(s) + 1 - i]]

\* list.sort, as CPython sorts a short list: the run the list starts with is
\* found (and reversed when strictly descending), then every later element is
\* placed into the sorted part by binary insertion. Elements are <<id, key>>.
RECURSIVE RunEnd(_, _, _)
RunEnd(s, i, descending) ==
    IF i = Len(s) THEN i
    ELSE IF Less(s[i + 1][2], s[i][2]) = descending
         THEN RunEnd(s, i + 1, descending)
         ELSE i

RECURSIVE Bisect(_, _, _, _)
Bisect(s, pivot, l, r) ==
    IF l >= r THEN l
    ELSE LET p == l + ((r - l) \div 2) IN
         IF Less(pivot[2], s[p + 1][2])
         THEN Bisect(s, pivot, l, p)
         ELSE Bisect(s, pivot, p + 1, r)

RECURSIVE BinarySort(_, _)
BinarySort(s, start) ==
    IF start > Len(s) THEN s
    ELSE LET at == Bisect(s, s[start], 0, start - 1) IN
         BinarySort(SubSeq(s, 1, at) \o <<s[start]>>
                        \o SubSeq(s, at + 1, start - 1)
                        \o SubSeq(s, start + 1, Len(s)),
                    start + 1)

ListSort(s) ==
    IF Len(s) < 2 THEN s
    ELSE LET descending == Less(s[2][2], s[1][2])
             n == RunEnd(s, 2, descending)
             run1 == IF descending THEN Reverse(SubSeq(s, 1, n))
                     ELSE SubSeq(s, 1, n)
         IN  BinarySort(run1 \o SubSeq(s, n + 1, Len(s)), n + 1)

\* combined.sort(key=lambda x: x[1], reverse=True): the list is reversed,
\* sorted and reversed again, which keeps equal keys in their first order.
SortReverse(s) == Reverse(ListSort(Reverse(s)))

\* The orders in which a set can be iterated.
Orders(S) ==
    {s \in [1..Cardinality(S) -> S] :
        \A i, j \in DOMAIN s : i # j => s[i] # s[j]}

\* combined[offset : offset + size]
Slice(s, offset, size) ==
    IF offset >= Len(s) THEN <<>>
    ELSE SubSeq(s, offset + 1, IF offset + size > Len(s) THEN Len(s)
                               ELSE offset + size)

\* The hybrid branch of search_documents for a page and a size, `order` being
\* the order in which all_ids is iterated (lines 431-459).
HybridResponse(order, page, size) ==
    LET ranked == SortReverse([i \in DOMAIN order |->
                                  <<order[i], combined(order[i])>>])
        cut == Slice(ranked, (page - 1) * size, size)
    IN  [status |-> 200, page |-> page, size |-> size,
         total |-> Len(ranked),
         ranked |-> [i \in DOMAIN ranked |-> ranked[i][1]],
         items |-> [i \in DOMAIN cut |-> cut[i][1]],
         scores |-> [i \in DOMAIN cut |-> cut[i][2]]]

\* The response when an exception leaves the endpoint: the framework's
\* internal server error.
ServerError(page, size) ==
    [status |-> 500, page |-> page, size |-> size, total |-> 0,
     ranked |-> <<>>, items |-> <<>>, scores |-> <<>>]

\* A hybrid search. The set all_ids is iterated in one of its orders: the two
\* SELECTs have no ORDER BY and the set is built from their rows.
search_documents ==
    /\ Len(searches) < MaxCalls
    /\ \E page \in 1..MaxPage, size \in 1..MaxSize, order \in Orders(all_ids) :
          searches' = Append(searches, HybridResponse(order, page, size))
    /\ UNCHANGED <<dbvars, file, nextTagId, queue, pc, msg, tx, todo, run,
                   events, corpus, chats, svcvars>>

\* A hybrid search during which embed_text raises (line 401): nothing in the
\* endpoint catches it.
search_embedding_fails ==
    /\ Len(searches) < MaxCalls
    /\ \E page \in 1..MaxPage, size \in 1..MaxSize :
          searches' = Append(searches, ServerError(page, size))
    /\ UNCHANGED <<dbvars, file, nextTagId, queue, pc, msg, tx, todo, run,
                   events, corpus, chats, svcvars>>

SearchInit ==
    /\ NoDocuments
    /\ Idle
    /\ corpus \in Corpora(SearchDocs)
    /\ searches = <<>>
    /\ chats = <<>>

SearchNext == search_documents \/ search_embedding_fails

SearchSpec == SearchInit /\ [][SearchNext]_vars

\* ------------------------------------------------------------------ chat
\* POST /chat (chat.py lines 18-41) and RAGService.answer (rag.py lines
\* 26-123) for one question; corpus[d].sem is the similarity of document d to
\* the question, documents being numbered in the order the store holds them.
MaxChatDocs == 6          \* documents of the corpus asked about
MaxChats == 1             \* questions asked

\* .limit(5)
TopK == 5

\* similarity < 0.1, in tenths
Threshold == 1

ChatDocs == 1..MaxChatDocs

\* What the call of the LLM can do: answer, refuse the connection
\* (httpx.ConnectError), or fail otherwise (a timeout, an HTTP error status).
LlmOutcomes == {"ok", "connect_error", "timeout"}

\* .where(Document.embedding.isnot(None))
Embedded == {d \in DOMAIN corpus : corpus[d].sem # Missing}

\* ORDER BY distance: a greater similarity first, not-a-number distances last
\* (PostgreSQL sorts NaN above every number), equal ones as stored.
Nearer(a, b) ==
    LET x == corpus[a].sem
        y == corpus[b].sem
    IN  \/ x # NaN /\ (y = NaN \/ x > y)
        \/ x = y /\ a < b

\* rows: the TopK nearest embedded documents (lines 39-49)
Rows ==
    LET rank(d) == Cardinality({e \in Embedded : Nearer(e, d)}) + 1
        n == IF Cardinality(Embedded) > TopK THEN TopK
             ELSE Cardinality(Embedded)
    IN  [i \in 1..n |-> CHOOSE d \in Embedded : rank(d) = i]

\* `if similarity < 0.1: continue` (lines 60-71)
Skipped(d) == Less(corpus[d].sem, Threshold)

Sources == SelectSeq(Rows, LAMBDA d : ~Skipped(d))

\* RAGService.answer: what it returns, or that it raised. `text` tells
\* whether the answer holds the text of the upstream exception.
answer(embed_ok, store_ok, llm) ==
    LET value(kind, sources, call, text) ==
            [raised |-> FALSE, kind |-> kind, sources |-> sources,
             llm |-> call, text |-> text]
    IN  IF ~embed_ok \/ ~store_ok
        THEN [raised |-> TRUE, kind |-> "none", sources |-> <<>>,
              llm |-> "not_called", text |-> FALSE]
        ELSE IF Rows = <<>>
        THEN value("no_documents", <<>>, "not_called", FALSE)
        ELSE IF Sources = <<>>
        THEN value("no_relevant", <<>>, "not_called", FALSE)
        ELSE IF llm = "ok"
        THEN value("generated", Sources, llm, FALSE)
        ELSE IF llm = "connect_error"
        THEN value("listing", Sources, llm, FALSE)
        ELSE value("error_text", Sources, llm, TRUE)

\* chat: the answer as the response, or HTTP 500 whose detail holds str(e).
ChatResponse(a) ==
    IF a.raised
    THEN [a EXCEPT !.text = TRUE] @@ [status |-> 500]
    ELSE a @@ [status |-> 200]

\* A question whose embedding and store query succeed.
chat ==
    /\ Len(chats) < MaxChats
    /\ \E llm \in LlmOutcomes :
          chats' = Append(chats, ChatResponse(answer(TRUE, TRUE, llm)))
    /\ UNCHANGED <<dbvars, file, nextTagId, queue, pc, msg, tx, todo, run,
                   events, corpus, searches, svcvars>>

\* A question during which embed_text (line 36) or db.execute (line 48)
\* raises.
chat_upstream_fails ==
    /\ Len(chats) < MaxChats
    /\ \E embed_ok \in BOOLEAN :
          chats' = Append(chats,
                          ChatResponse(answer(embed_ok, ~embed_ok, "ok")))
    /\ UNCHANGED <<dbvars, file, nextTagId, queue, pc, msg, tx, todo, run,
                   events, corpus, searches, svcvars>>

ChatInit ==
    /\ NoDocuments
    /\ Idle
    /\ corpus \in Corpora(ChatDocs)
    /\ \A d \in ChatDocs : corpus[d].ft = Missing
    /\ searches = <<>>
    /\ chats = <<>>

ChatNext == chat \/ chat_upstream_fails

ChatSpec == ChatInit /\ [][ChatNext]_vars

Range(s) == {s[i] : i \in DOMAIN s}

\* ------------------------------------------------------------- ingestion
\* The two ingestion triggers step by step: the watcher's handler for one new
\* file (watcher.py lines 29-117) and one upload request (documents.py lines
\* 48-106). No worker takes a message here: the queue holds what was sent.
MaxFiles == 2             \* files of the upload request

\* max_wait and check_interval of _wait_for_write, in seconds
max_wait == 60
check_interval == 1

\* What os.path.getsize can return; OSErr stands for the OSError it raises.
Sizes == {0, 1, 2}
OSErr == 0 - 2

\* The pipeline's variables that ingestion leaves alone.
workvars == <<content, logs, tags, docTags, fields, nextTagId, pc, msg, tx,
              todo, run, events>>

\* uuid.uuid4(): the identifiers of the next n records.
RECURSIVE Fresh(_, _)
Fresh(absent, n) ==
    IF n = 0 \/ absent = {} THEN <<>>
    ELSE LET d == CHOOSE x \in absent : \A y \in absent : x <= y
         IN  <<d>> \o Fresh(absent \ {d}, n - 1)

Absent == {d \in Docs : status[d] = "absent"}

\* on_created (lines 29-44): a directory or a file with another extension is
\* left alone, else the handler starts to wait for the end of the write.
on_created ==
    /\ watcher.pc = "idle"
    /\ \E wanted \in BOOLEAN :
          watcher' = [watcher EXCEPT !.pc = IF wanted THEN "waiting"
                                           ELSE "ignored"]
    /\ UNCHANGED <<status, file, queue, workvars, corpus, searches, chats,
                   request, classified, ck, thumbs>>

\* A loop that does not count the wait of an unreadable file.
WaitNotCountingErrors ==
    /\ watcher.pc = "waiting"
    /\ IF watcher.waited >= max_wait
       THEN watcher' = [watcher EXCEPT !.warned = TRUE, !.pc = "process"]
       ELSE \E current_size \in Sizes \cup {OSErr} :
              IF current_size = OSErr
              THEN watcher' = [watcher EXCEPT !.size = current_size,
                                              !.polls = @ + 1]
              ELSE IF current_size = watcher.previous_size /\ current_size > 0
              THEN watcher' = [watcher EXCEPT !.size = current_size,
                                              !.polls = @ + 1,
                                              !.pc = "process"]
              ELSE watcher' = [watcher EXCEPT !.size = current_size,
                                              !.polls = @ + 1,
                                              !.previous_size = current_size,
                                              !.waited = @ + check_interval]
    /\ UNCHANGED <<status, file, queue, workvars, corpus, searches, chats,
                   request, classified, ck, thumbs>>

\* _wait_for_write (lines 51-69), one turn of its loop: the loop ends with
\* the warning when the time is used up; a size that cannot be read costs one
\* interval; a size equal to the previous one and not zero ends the wait; any
\* other size is remembered and costs one interval. on_created then goes on
\* to _process_new_file (lines 44-47).
_wait_for_write ==
    /\ watcher.pc = "waiting"
    /\ IF watcher.waited >= max_wait
       THEN watcher' = [watcher EXCEPT !.warned = TRUE, !.pc = "process"]
       ELSE \E current_size \in Sizes \cup {OSErr} :
              IF current_size = OSErr
              THEN watcher' = [watcher EXCEPT !.size = current_size,
                                              !.polls = @ + 1,
                                              !.waited = @ + check_interval]
              ELSE IF current_size = watcher.previous_size /\ current_size > 0
              THEN watcher' = [watcher EXCEPT !.size = current_size,
                                              !.polls = @ + 1,
                                              !.pc = "process"]
              ELSE watcher' = [watcher EXCEPT !.size = current_size,
                                              !.polls = @ + 1,
                                              !.previous_size = current_size,
                                              !.waited = @ + check_interval]
    /\ UNCHANGED <<status, file, queue, workvars, corpus, searches, chats,
                   request, classified, ck, thumbs>>

\* _process_new_file up to its commit (lines 73-112): the file is moved and
\* the record committed as pending; or a statement raises before the commit
\* (the file is gone, the database refuses) and on_created logs the
\* exception (lines 48-49).
_process_new_file ==
    /\ watcher.pc = "process"
    /\ \/ /\ Absent # {}
          /\ LET d == Fresh(Absent, 1)[1] IN
             /\ status' = [status EXCEPT ![d] = "pending"]
             /\ \E f \in Files \ {"missing"} : file' = [file EXCEPT ![d] = f]
             /\ watcher' = [watcher EXCEPT !.pc = "committed", !.doc = d]
       \/ /\ watcher' = [watcher EXCEPT !.pc = "failed"]
          /\ UNCHANGED <<status, file>>
    /\ UNCHANGED <<queue, workvars, corpus, searches, chats, request,
                   classified, ck, thumbs>>

\* _process_new_file, lines 114-117: the task is sent, or send_task raises
\* (the broker cannot be reached) and on_created logs the exception.
watcher_send_task ==
    /\ watcher.pc = "committed"
    /\ \/ /\ queue' = queue (+) SetToBag({Message("process", watcher.doc, 0)})
          /\ watcher' = [watcher EXCEPT !.pc = "done"]
       \/ /\ queue' = queue
          /\ watcher' = [watcher EXCEPT !.pc = "failed"]
    /\ UNCHANGED <<status, file, workvars, corpus, searches, chats, request,
                   classified, ck, thumbs>>

\* upload_documents up to its commit (lines 53-99): every file is written
\* and its record flushed, then all are committed as pending; or a file is
\* refused (400) or the database raises, and get_db rolls the session back.
upload_commit ==
    /\ request.pc = "idle"
    /\ \/ \E n \in 1..MaxFiles :
             /\ n <= Cardinality(Absent)
             /\ LET ids == Fresh(Absent, n) IN
                /\ status' = [d \in Docs |->
                                 IF d \in Range(ids) THEN "pending"
                                 ELSE status[d]]
                /\ \E f \in Files \ {"missing"} :
                      file' = [d \in Docs |->
                                 IF d \in Range(ids) THEN f ELSE file[d]]
                /\ request' = [request EXCEPT !.pc = "sending",
                                              !.results = ids,
                                              !.created = Range(ids)]
       \/ /\ \E code \in {400, 500} :
                request' = [request EXCEPT !.pc = "done", !.code = code]
          /\ UNCHANGED <<status, file>>
    /\ UNCHANGED <<queue, workvars, corpus, searches, chats, watcher,
                   classified, ck, thumbs>>

\* upload_documents, lines 101-106: one turn of the loop that sends a task
\* per committed record, and the return (201); or send_task raises and the
\* request ends with the framework's internal server error.
upload_send_task ==
    /\ request.pc = "sending"
    /\ IF request.results = <<>>
       THEN /\ request' = [request EXCEPT !.pc = "done", !.code = 201]
            /\ queue' = queue
       ELSE \/ /\ queue' = queue (+)
                      SetToBag({Message("process", Head(request.results), 0)})
               /\ request' = [request EXCEPT !.results = Tail(@)]
            \/ /\ queue' = queue
               /\ request' = [request EXCEPT !.pc = "done", !.code = 500]
    /\ UNCHANGED <<status, file, workvars, corpus, searches, chats, watcher,
                   classified, ck, thumbs>>

IngestInit == Init

IngestNext ==
    \/ on_created \/ _wait_for_write \/ _process_new_file
    \/ watcher_send_task
    \/ upload_commit \/ upload_send_task

\* The handler's thread keeps running: its loop takes its next turn.
IngestSpec == IngestInit /\ [][IngestNext]_vars /\ WF_vars(_wait_for_write)

\* ------------------------------------------------------------ classifier
\* ClassifierService.classify (classifier.py lines 30-65) for one text and
\* one behaviour of the model. Texts are sequences of one-character strings;
\* "\n" ends a line.
MaxTextLen == 3           \* characters of the short texts
MaxClassifications == 1   \* calls of classify

\* lines[0][:100]
TitleLength == 100

\* A line longer than a title may be.
LongLine == [i \in 1..(TitleLength + 1) |-> "a"]

ShortTexts == UNION {[1..n -> {"a", " ", "\n"}] : n \in 0..MaxTextLen}

ClassifierTexts ==
    ShortTexts \cup {LongLine, <<" ", "\n", " ">> \o LongLine \o <<"\n", "a">>}

\* text.split("\n"): the parts between the line ends
Split(text) ==
    LET ends == {i \in DOMAIN text : text[i] = "\n"}
        end(k) == IF k = 0 THEN 0
                  ELSE IF k > Cardinality(ends) THEN Len(text) + 1
                  ELSE CHOOSE i \in ends :
                          Cardinality({j \in ends : j < i}) = k - 1
    IN  [k \in 1..(Cardinality(ends) + 1) |->
            SubSeq(text, end(k - 1) + 1, end(k) - 1)]

\* s[:n]
Truncated(s, n) == IF Len(s) <= n THEN s ELSE SubSeq(s, 1, n)

UntitledDocument == <<"U", "n", "t", "i", "t", "l", "e", "d", " ",
                      "D", "o", "c", "u", "m", "e", "n", "t">>

\* _fallback_title: the first line that is not blank, stripped, cut to
\* TitleLength characters.
_fallback_title(text) ==
    LET stripped == [i \in DOMAIN Split(text) |->
                        Strip(Split(text)[i], {" "})]
        lines == SelectSeq(stripped, LAMBDA l : l # <<>>)
    IN  IF lines # <<>> THEN Truncated(lines[1], TitleLength)
        ELSE UntitledDocument

\* ClassificationResult with the defaults of the dataclass (lines 17-24); a
\* call that raised has `raised` set.
ClassificationResult(title) ==
    [raised |-> FALSE, title |-> title, tags |-> <<>>, document_type |-> "",
     correspondent |-> "", date |-> "null", summary |-> ""]

\* What the model said when it answered: `json` tells what json.loads makes
\* of the whole response (an object, another JSON value, or a decode error),
\* `braces` what it makes of the part from the first "{" to the last "}"
\* (none when there is no such part), `data` the keys of the object.
ModelData ==
    [title |-> <<"a">>, tags |-> <<NameTax>>, document_type |-> "Invoice",
     correspondent |-> "Acme", date |-> "2024-01-01", summary |-> "s"]

Raws == [json : {"object", "array", "invalid"},
         braces : {"none", "object", "invalid"}]

\* The result built from the parsed object (lines 116-123)
Parsed(data) ==
    [raised |-> FALSE, title |-> data.title, tags |-> data.tags,
     document_type |-> data.document_type,
     correspondent |-> data.correspondent, date |-> data.date,
     summary |-> data.summary]

Raised == [ClassificationResult(<<>>) EXCEPT !.raised = TRUE]

\* _parse_response: a JSON value that is no object has no `get`, and the
\* AttributeError leaves the function; a response without any JSON gives the
\* empty ClassificationResult.
_parse_response(raw) ==
    IF raw.json = "object" THEN Parsed(ModelData)
    ELSE IF raw.json = "array" THEN Raised
    ELSE IF raw.braces = "object" THEN Parsed(ModelData)
    ELSE ClassificationResult(<<>>)

\* What the request to the model does: the connection is refused, another
\* exception (a timeout, an HTTP error status, a body that is no JSON), or
\* an answer.
ModelFailures == {"connect_error", "other_error"}

\* classify with the model failing in way `failure` ("none": it answers raw)
ClassifierClassify(text, failure, raw) ==
    IF Strip(SelectSeq(text, LAMBDA c : c # "\n"), {" "}) = <<>>
    THEN ClassificationResult(<<>>)
    ELSE IF failure \in ModelFailures
    THEN ClassificationResult(_fallback_title(text))
    ELSE IF _parse_response(raw).raised
    THEN ClassificationResult(_fallback_title(text))
    ELSE _parse_response(raw)

\* A call during which the request to the model raises.
classify_unreachable ==
    /\ Len(classified) < MaxClassifications
    /\ \E text \in ClassifierTexts, failure \in ModelFailures :
          classified' = Append(classified,
              [text |-> text, model |-> failure,
               result |-> ClassifierClassify(text, failure,
                                             [json |-> "invalid",
                                              braces |-> "none"])])
    /\ UNCHANGED <<status, file, queue, workvars, corpus, searches, chats,
                   watcher, request, ck, thumbs>>

\* A call during which the model answers.
classify_answered ==
    /\ Len(classified) < MaxClassifications
    /\ \E text \in ClassifierTexts, raw \in Raws :
          /\ raw.json # "invalid" => raw.braces = "none"
          /\ classified' = Append(classified,
                 [text |-> text,
                  model |-> IF raw.json = "object" \/ raw.braces = "object"
                            THEN "json_object"
                            ELSE IF raw.json = "array" THEN "json_other"
                            ELSE "unparseable",
                  result |-> ClassifierClassify(text, "none", raw)])
    /\ UNCHANGED <<status, file, queue, workvars, corpus, searches, chats,
                   watcher, request, ck, thumbs>>

ClassifyInit == Init

ClassifyNext == classify_unreachable \/ classify_answered

ClassifySpec == ClassifyInit /\ [][ClassifyNext]_vars

\* -------------------------------------------------------------- chunking
\* EmbeddingService.chunk_text (embeddings.py lines 42-56), one turn of its
\* loop at a time.
MaxChunkText == 5         \* characters of the text
MaxChunkSize == 3         \* chunk_size
MaxOverlap == 3           \* overlap
MaxIterations == 8        \* turns of the loop that are followed

ChunkTexts == UNION {[1..n -> {"a", "b", " "}] : n \in 0..MaxChunkText}

\* text[start:end] as Python slices: an index below zero counts from the
\* end, and both are brought into 0..len(text).
PySlice(text, start, end) ==
    LET n == Len(text)
        clamp(i) == IF i < 0 THEN (IF i + n < 0 THEN 0 ELSE i + n)
                    ELSE IF i > n THEN n ELSE i
    IN  SubSeq(text, clamp(start) + 1, clamp(end))

\* chunk_text up to its loop (lines 45-49)
chunk_text ==
    /\ ck.pc = "idle"
    /\ \E text \in ChunkTexts, chunk_size \in 1..MaxChunkSize,
          overlap \in 0..MaxOverlap :
          ck' = [ck EXCEPT !.text = text, !.chunk_size = chunk_size,
                           !.overlap = overlap,
                           !.pc = IF text = <<>> THEN "returned" ELSE "loop"]
    /\ UNCHANGED <<status, file, queue, workvars, corpus, searches, chats,
                   watcher, request, classified, thumbs>>

\* A loop that moves on by the whole chunk_size.
ChunkLoopWithoutOverlap ==
    /\ ck.pc = "loop"
    /\ IF ck.start < Len(ck.text)
       THEN LET chunk == PySlice(ck.text, ck.start, ck.start + ck.chunk_size)
            IN  /\ ck.iterations < MaxIterations
                /\ ck' = [ck EXCEPT
                       !.chunks = IF Strip(chunk, {" "}) # <<>>
                                  THEN Append(@, Strip(chunk, {" "}))
                                  ELSE @,
                       !.start = @ + ck.chunk_size,
                       !.iterations = @ + 1]
       ELSE ck' = [ck EXCEPT !.pc = "returned"]
    /\ UNCHANGED <<status, file, queue, workvars, corpus, searches, chats,
                   watcher, request, classified, thumbs>>

\* One turn of `while start < text_len` (lines 50-56): the chunk is cut,
\* stripped and kept unless blank, and start moves on by chunk_size -
\* overlap; or the loop ends and the chunks are returned.
chunk_text_loop ==
    /\ ck.pc = "loop"
    /\ IF ck.start < Len(ck.text)
       THEN LET chunk == PySlice(ck.text, ck.start, ck.start + ck.chunk_size)
            IN  /\ ck.iterations < MaxIterations
                /\ ck' = [ck EXCEPT
                       !.chunks = IF Strip(chunk, {" "}) # <<>>
                                  THEN Append(@, Strip(chunk, {" "}))
                                  ELSE @,
                       !.start = @ + ck.chunk_size - ck.overlap,
                       !.iterations = @ + 1]
       ELSE ck' = [ck EXCEPT !.pc = "returned"]
    /\ UNCHANGED <<status, file, queue, workvars, corpus, searches, chats,
                   watcher, request, classified, thumbs>>

ChunkInit == Init

ChunkNext == chunk_text \/ chunk_text_loop

\* The call keeps running: the loop takes its next turn.
ChunkSpec == ChunkInit /\ [][ChunkNext]_vars /\ WF_vars(chunk_text_loop)

\* ------------------------------------------------------- thumbnail stage
\* Step 5 of process_document (process.py lines 191-215) on the three columns
\* it fills, for one document and one state of its file.
MaxThumbs == 1            \* thumbnail stages applied

\* A column that holds NULL.
Unset == 0 - 1

\* Document.page_count, file_size and mime_type before the stage
Columns == [page_count : {Unset, 0, 2}, file_size : {Unset, 0, 7},
            mime_type : {"unset", "", "application/pdf"}]

\* PDFService.get_file_info: the fixed answer for a missing file (pdf.py
\* lines 81-82), else what the file has.
FileInfos ==
    {[pages |-> 0, size |-> 0, mime_type |-> "unknown"]}
        \cup [pages : {0, 1, 2}, size : {7, 9},
              mime_type : {"application/pdf", "image/png"}]

\* `not doc.file_size`: NULL or 0
NoSize(v) == v \in {Unset, 0}

\* `not doc.mime_type`: NULL or the empty string
NoType(v) == v \in {"unset", ""}

\* The assignments of lines 204-209
Backfilled(doc, file_info) ==
    [page_count |-> file_info.pages,
     file_size |-> IF NoSize(doc.file_size) THEN file_info.size
                   ELSE doc.file_size,
     mime_type |-> IF NoType(doc.mime_type) THEN file_info.mime_type
                   ELSE doc.mime_type]

\* The stage runs to its end (lines 192-212).
thumbnail_stage ==
    /\ Len(thumbs) < MaxThumbs
    /\ \E doc \in Columns, file_info \in FileInfos :
          thumbs' = Append(thumbs,
                           [before |-> doc, file_info |-> file_info,
                            after |-> Backfilled(doc, file_info),
                            entry |-> Entry("thumbnail", "success")])
    /\ UNCHANGED <<status, file, queue, workvars, corpus, searches, chats,
                   watcher, request, classified, ck>>

\* The stage raises before file_info is there (lines 196-204) and the
\* failure is logged (lines 213-215).
thumbnail_stage_fails ==
    /\ Len(thumbs) < MaxThumbs
    /\ \E doc \in Columns, file_info \in FileInfos :
          thumbs' = Append(thumbs,
                           [before |-> doc, file_info |-> file_info,
                            after |-> doc,
                            entry |-> Entry("thumbnail", "error")])
    /\ UNCHANGED <<status, file, queue, workvars, corpus, searches, chats,
                   watcher, request, classified, ck>>

ThumbInit == Init

ThumbNext == thumbnail_stage \/ thumbnail_stage_fails

ThumbSpec == ThumbInit /\ [][ThumbNext]_vars

\* ------------------------------------------------------------ properties

\* The worker is inside a task: it has started and has neither returned nor
\* raised.
Running(w) == pc[w] \notin {"idle", "ended"}

LaterSteps == {"classify", "fields", "embeddings", "thumbnail", "complete"}

\* C1: every run of process_document whose text extraction succeeded ends
\* with status done and a `complete` log entry, whichever later stages raised.
C1_OcrOkEndsDone ==
    \A w \in Workers :
        (pc[w] = "ended" /\ msg[w].task = "process" /\ run[w].ocr = "ok")
            => /\ run[w].result = "done"
               /\ Entry("complete", "success") \in Range(run[w].log)

\* C2: when text extraction raises in a process_document run, the step that
\* handles it ends the run with the document's status committed as error, and
\* the run has written no classify, fields, embeddings, thumbnail or complete
\* entry.
C2_OcrRaiseEndsInError ==
    /\ [](\A w \in Workers :
            (msg[w].task = "process" /\ run[w].ocr = "raise")
                => /\ pc[w] = "ended"
                   /\ run[w].result = "error"
                   /\ \A e \in Range(run[w].log) : e.step \notin LaterSteps)
    /\ [][\A w \in Workers :
            (pc[w] = "ocr" /\ run'[w].ocr = "raise")
                => /\ status'[msg[w].doc] = "error"
                   /\ Entry("ocr", "error") \in Range(logs'[msg[w].doc])]_vars

C2_Witness ==
    \E w \in Workers :
        /\ msg[w].task = "process" /\ run[w].ocr = "raise" /\ pc[w] = "ended"
        /\ status[msg[w].doc] = "error"
        /\ run[w].log = <<Entry("start", "info"), Entry("ocr", "error")>>

C4_DoneHasContentAndComplete ==
    \A d \in Docs :
        status[d] = "done"
            => /\ content[d] # "null"
               /\ \E e \in Range(logs[d]) : e.step = "complete"

\* C5: a document whose committed status is error has a log entry with status
\* error, whichever task set the status.
C5_ErrorHasErrorEntry ==
    \A d \in Docs :
        status[d] = "error" => \E e \in Range(logs[d]) : e.status = "error"

\* C6: a run that an exception made leave the stage loop ends with the
\* failure logged by that run and the document marked error by it; it is run
\* again only while fewer than MaxRetries retries were made.
C6_EscapedIsMarkedAndLogged ==
    \A w \in Workers :
        (pc[w] = "ended" /\ run[w].escaped)
            => /\ \E e \in Range(run[w].log) : e.status = "error"
               /\ \E e \in Range(logs[msg[w].doc]) : e.status = "error"
               /\ run[w].result \in {"retry", "failed"}
               /\ msg[w].retries <= MaxRetries

\* C7: no two workers are inside a pipeline task of the same document at the
\* same time.
C7_OneExecutionPerDocument ==
    \A w1, w2 \in Workers :
        (w1 # w2 /\ Running(w1) /\ Running(w2)) => msg[w1].doc # msg[w2].doc

\* C8: under fair scheduling of the workers, with the crashes the model
\* allows, a document that is pending eventually is done or error.
C8_PendingLeadsToDoneOrError ==
    \A d \in Docs : (status[d] = "pending") ~> (status[d] \in {"done", "error"})

\* C9, as the code has it: the stages of a run only flush. The committed
\* content, log entries, tags and associations change only in a step that
\* ends a run (the closing commit, the commit of the OCR failure, the commit
\* of the handler), so a step that does not end the run, a crash included,
\* leaves none of the run's results behind.
C9_DurableOnlyWhenRunEnds ==
    [][<<content, logs, tags, docTags>>' # <<content, logs, tags, docTags>>
          => \E w \in Workers : Running(w) /\ pc'[w] = "ended"]_vars

\* A run crashed in a later stage, after its text extraction had succeeded
\* and been logged, and nothing of it is in the committed rows.
C9_Witness ==
    \E w \in Workers :
        /\ pc[w] = "idle" /\ run[w].result = "crashed"
        /\ Entry("ocr", "success") \in Range(run[w].log)
        /\ Entry("classify", "success") \in Range(run[w].log)
        /\ logs[run[w].doc] = <<>>
        /\ content[run[w].doc] = "null"

\* C9, as stated: what the finished stages of a run that crashed had written
\* (the log entries, the extracted content) is in the committed rows.
C9_ProgressSurvivesCrash ==
    \A w \in Workers :
        run[w].result = "crashed"
            => /\ Range(run[w].log) \subseteq Range(logs[run[w].doc])
               /\ Entry("ocr", "success") \in Range(run[w].log)
                      => content[run[w].doc] # "null"

\* C10: no two committed Tag rows have the same slug, and no (document, tag)
\* pair is associated twice.
C10_TagsAndAssociationsUnique ==
    /\ \A t1, t2 \in tags : t1.slug = t2.slug => t1 = t2
    /\ \A e \in BagToSet(docTags) : CopiesIn(e, docTags) = 1

\* Two documents carry the same tag, reached through names that differ and
\* slugs that agree, and one of them was classified twice.
C10_Witness ==
    \E t \in tags :
        /\ \A d \in Docs : BagIn(<<d, t.id>>, docTags)
        /\ \E d \in Docs :
              Cardinality({i \in DOMAIN logs[d] :
                              logs[d][i] = Entry("classify", "success")}) >= 2

\* C11: the step that completes a reprocess_document run leaves the document
\* with exactly the fields that run extracted (none when its field stage
\* failed): no row the document had before is left.
C11_RerunReplacesFields ==
    [][\A w \in Workers :
          (msg[w].task = "reprocess" /\ pc[w] = "rcomplete"
                                     /\ pc'[w] = "ended")
              => OfDocument(fields', msg[w].doc) = FieldRows(w, run[w].fields)]_vars

\* A completed rerun that found the fields Date and Amount of an earlier run
\* and extracted Date only: Amount is gone.
C11_Witness ==
    \E w \in Workers :
        /\ pc[w] = "ended" /\ msg[w].task = "reprocess"
        /\ run[w].result = "done"
        /\ BagIn(<<msg[w].doc, "Amount">>, run[w].old_fields)
        /\ run[w].fields = {"Date"}
        /\ OfDocument(fields, msg[w].doc) = SetToBag({<<msg[w].doc, "Date">>})

\* C12: no step that ends a process_document run removes a custom field
\* row: every row is there afterwards as often as before.
C12_FirstRunDeletesNoField ==
    [][\A w \in Workers :
          (msg[w].task = "process" /\ Running(w) /\ pc'[w] = "ended")
              => \A e \in BagToSet(fields) :
                    CopiesIn(e, fields') >= CopiesIn(e, fields)]_vars

\* A second process_document run has completed on a document that was done
\* and had fields: the rows of the first run are still there.
C12_Witness ==
    \E w \in Workers :
        /\ pc[w] = "ended" /\ msg[w].task = "process"
        /\ run[w].result = "done"
        /\ Cardinality({i \in DOMAIN logs[msg[w].doc] :
                           logs[msg[w].doc][i].step = "complete"}) = 2
        /\ run[w].fields = {"Date"}
        /\ BagIn(<<msg[w].doc, "Amount">>, fields)

\* C13: executing process_document again for a document does not duplicate
\* its custom fields: a document that only first-time runs have worked on
\* has no (document, field) row twice.
C13_NoDuplicateFields ==
    \A d \in Docs :
        (\A e \in Range(logs[d]) : e.step # "reprocess_start")
            => \A e \in BagToSet(OfDocument(fields, d)) :
                  CopiesIn(e, fields) = 1

\* C14: the re-OCR step of reprocess_document calls the extractor exactly
\* when the document's stored content is null or blank, and otherwise leaves
\* the content alone and works on it.
C14_ExtractorIffStoredBlank ==
    [][\A w \in Workers :
          (pc[w] = "rocr" /\ pc'[w] = "rclassify")
              => LET stored == content[msg[w].doc] IN
                 /\ run'[w].ocr \in {"ok", "raise"} <=> IsBlank(stored)
                 /\ ~IsBlank(stored)
                        => /\ tx'[w].content = "unchanged"
                           /\ run'[w].text = stored]_vars

\* C15: a run that ended done after a successful classification step has
\* left a Tag row for every tag the classifier named, associated with the
\* document exactly once.
C15_ClassificationCreatesAndAssociates ==
    \A w \in Workers :
        (/\ pc[w] = "ended" /\ run[w].result = "done"
         /\ \E e \in Range(run[w].log) :
               e.step \in {"classify", "reclassify"} /\ e.status = "success")
            => \A i \in DOMAIN classify(run[w].text) :
                  \E t \in tags :
                      /\ t.slug = _slugify(classify(run[w].text)[i])
                      /\ CopiesIn(<<msg[w].doc, t.id>>, docTags) = 1

\* C16: a hybrid search counts the union of the full-text matches and the
\* embedded documents, gives each returned document the combined score
\* 0.4 * ft + 0.6 * sem with a missing component as 0, and cuts its page out
\* of the whole set ordered by that score: no document is ranked before one
\* with a greater score.
C16_HybridRankedBeforeCut ==
    \A k \in DOMAIN searches :
        LET r == searches[k] IN
        r.status = 200
            => /\ r.total = Cardinality(all_ids)
               /\ {r.ranked[i] : i \in DOMAIN r.ranked} = all_ids
               /\ r.items = Slice(r.ranked, (r.page - 1) * r.size, r.size)
               /\ \A i \in DOMAIN r.items : r.scores[i] = combined(r.items[i])
               /\ \A i, j \in DOMAIN r.ranked :
                     i < j => ~Less(combined(r.ranked[i]),
                                    combined(r.ranked[j]))

\* C17: two hybrid searches over the same corpus rank alike: the same page
\* holds the same documents, and different pages of one size share none
\* (stated for the corpora in which every score is a number).
C17_PagesStable ==
    \A k, l \in DOMAIN searches :
        LET a == searches[k]
            b == searches[l]
        IN  (/\ \A d \in DOMAIN corpus : corpus[d].sem # NaN
             /\ a.status = 200 /\ b.status = 200 /\ a.size = b.size)
                => IF a.page = b.page
                   THEN a.items = b.items
                   ELSE {a.items[i] : i \in DOMAIN a.items}
                           \cap {b.items[i] : i \in DOMAIN b.items} = {}

\* The documents among the TopK nearest whose similarity is a number that is
\* at least the threshold.
Survivors ==
    SelectSeq(Rows, LAMBDA d : corpus[d].sem # NaN
                                  /\ corpus[d].sem >= Threshold)

\* C18: answer() calls the LLM only when a document among the 5 nearest has
\* similarity >= 0.1, returns a canned message and no source otherwise, and
\* its sources are exactly those documents.
C18_LlmOnlyWithSurvivors ==
    \A k \in DOMAIN chats :
        LET r == chats[k] IN
        ~r.raised
            => /\ r.sources = Survivors
               /\ Len(r.sources) <= TopK
               /\ r.llm # "not_called" <=> Survivors # <<>>
               /\ Survivors = <<>>
                     => r.kind \in {"no_documents", "no_relevant"}

\* C19: answer() never raises, and when the LLM cannot be reached its answer
\* lists the retrieved sources.
C19_AnswerNeverRaises ==
    \A k \in DOMAIN chats :
        /\ ~chats[k].raised
        /\ chats[k].llm \in {"connect_error", "timeout"}
              => chats[k].kind = "listing"

\* C20: no response of chat holds the text of an upstream exception: a
\* failure upstream gives the fallback answer with status 200.
C20_NoUpstreamErrorText ==
    \A k \in DOMAIN chats : chats[k].status = 200 /\ ~chats[k].text

\* C24: a process_document run on a document whose file is missing ends in
\* status error and never in done: the extractor raises for a missing file.
C24_MissingFileEndsInError ==
    \A w \in Workers :
        (/\ pc[w] = "ended" /\ msg[w].task = "process"
         /\ run[w].ocr # "none" /\ file[msg[w].doc] = "missing")
            => run[w].result = "error" /\ status[msg[w].doc] = "error"

\* The `complete` entries among the committed log entries of document d.
CompleteEntries(d) == {i \in DOMAIN logs[d] : logs[d][i].step = "complete"}

\* C27: once a process_document run has ended done, a second one after a
\* redelivery included, the document has non-null content and exactly one
\* `complete` log entry in all.
C27_SuccessfulRunLeavesOneComplete ==
    \A w \in Workers :
        (pc[w] = "ended" /\ msg[w].task = "process" /\ run[w].result = "done")
            => /\ content[msg[w].doc] # "null"
               /\ Cardinality(CompleteEntries(msg[w].doc)) = 1

\* The stages of process_document in the order of the code.
StageOrder == <<"start", "ocr", "classify", "fields", "embeddings",
                "thumbnail", "complete">>

\* The number of stages that lie before the place pc in process_document.
StagesBefore(p) ==
    CASE p = "ocr" -> 1
      [] p \in {"classify", "tags", "tagwait"} -> 2
      [] p = "fields" -> 3
      [] p = "embed" -> 4
      [] p = "thumb" -> 5
      [] p = "complete" -> 6
      [] OTHER -> 7

StepsOf(log) == [i \in DOMAIN log |-> log[i].step]

\* C28: when a stage of a process_document run starts, every earlier stage
\* has written exactly one entry, success or error (info for start), in the
\* order of the stages; a run that has ended done has written the seven
\* entries start, ocr, classify, fields, embeddings, thumbnail, complete, and
\* they are committed entries of the document, one after the other in that
\* order.
C28_OneEntryPerStageInOrder ==
    \A w \in Workers :
        msg[w].task = "process" =>
            /\ pc[w] \in {"ocr", "classify", "tags", "tagwait", "fields",
                          "embed", "thumb", "complete"}
                  => /\ StepsOf(run[w].log)
                          = SubSeq(StageOrder, 1, StagesBefore(pc[w]))
                     /\ \A i \in DOMAIN run[w].log :
                           run[w].log[i].status
                               \in IF i = 1 THEN {"info"}
                                   ELSE {"success", "error"}
            /\ (pc[w] = "ended" /\ run[w].result = "done")
                  => /\ StepsOf(run[w].log) = StageOrder
                     /\ LET all == logs[msg[w].doc] IN
                        \E k \in 1..Len(all) :
                            /\ k + 6 <= Len(all)
                            /\ SubSeq(all, k, k + 6) = run[w].log

\* A run that has ended done although two of its stages failed: each of the
\* seven stages has its one entry.
C28_Witness ==
    \E w \in Workers :
        /\ pc[w] = "ended" /\ msg[w].task = "process"
        /\ run[w].result = "done"
        /\ StepsOf(run[w].log) = StageOrder
        /\ run[w].log[5] = Entry("embeddings", "error")
        /\ run[w].log[6] = Entry("thumbnail", "error")

\* C30: no committed status is processing: the committed status of a
\* document is pending, done or error (absent before the upload).
C30_ProcessingNeverCommitted ==
    \A d \in Docs : status[d] \in {"absent", "pending", "done", "error"}

\* A run has gone through every stage with the status processing flushed in
\* its transaction, and the committed status still is pending.
C30_Witness ==
    \E w \in Workers :
        /\ pc[w] \in {"complete", "rcomplete"}
        /\ tx[w].status = "processing"
        /\ status[msg[w].doc] = "pending"

\* C21: _wait_for_write always ends. A read equal to the previous size and
\* not zero ends it at once without a warning; otherwise it ends after at
\* most max_wait / check_interval reads (whatever they gave: zero, changing
\* sizes or errors) with the warning; and either way the handler goes on to
\* ingest the file.
C21_WaitTerminates ==
    /\ [](watcher.polls <= max_wait \div check_interval)
    /\ [][(watcher.pc = "waiting" /\ watcher' # watcher) =>
            /\ (/\ watcher.waited < max_wait
                /\ watcher'.size > 0
                /\ watcher'.size = watcher.previous_size)
                  => watcher'.pc = "process" /\ ~watcher'.warned
            /\ watcher'.pc # "waiting"
                  => /\ watcher'.pc = "process"
                     /\ watcher'.warned <=> watcher.waited >= max_wait
                     /\ ~watcher'.warned
                           => /\ watcher'.size > 0
                              /\ watcher'.size = watcher.previous_size]_vars
    /\ (watcher.pc = "waiting") ~> (watcher.pc = "process")

\* The wait used up its time on a file whose size stayed 0 or could not be
\* read, warned, and the file went on to ingestion.
C21_Witness ==
    /\ watcher.pc = "committed"
    /\ watcher.warned
    /\ watcher.polls = max_wait \div check_interval
    /\ watcher.previous_size = 0
    /\ watcher.size = OSErr

\* C22: no task is in the queue for a record that is not committed, and once
\* the trigger that created a record has ended, exactly one process task has
\* been sent for it.
C22_OneTaskPerCommittedRecord ==
    \A d \in Docs :
        LET sent == CopiesIn(Message("process", d, 0), queue) IN
        /\ status[d] = "absent" => sent = 0
        /\ status[d] # "absent" => status[d] = "pending" /\ sent <= 1
        /\ (watcher.doc = d /\ watcher.pc \in {"done", "failed"}) => sent = 1
        /\ (d \in request.created /\ request.pc = "done") => sent = 1

\* The text has a line that is not blank.
HasLine(text) == \E i \in DOMAIN text : text[i] \notin {" ", "\n"}

\* C23: classify never raises, and for a text with a line that is not blank
\* a model that cannot be reached, fails, or answers something that is no
\* JSON object gives the fallback: the title is the first non-blank line cut
\* to 100 characters and every other field is empty.
C23_FallbackOnFailure ==
    \A k \in DOMAIN classified :
        LET c == classified[k] IN
        /\ ~c.result.raised
        /\ (HasLine(c.text) /\ c.model # "json_object")
              => /\ c.result = ClassificationResult(c.result.title)
                 /\ c.result.title = _fallback_title(c.text)
                 /\ Len(c.result.title) \in 1..TitleLength

\* C25: every call of chunk_text ends, whatever chunk_size and overlap are:
\* a call that has entered its loop returns.
C25_ChunkTerminates == (ck.pc = "loop") ~> (ck.pc = "returned")

\* The windows of a text of n characters for a step of size - overlap: the
\* k-th starts after (k - 1) * step characters and holds chunk_size
\* characters, or those left.
WindowCount == (Len(ck.text) + (ck.chunk_size - ck.overlap) - 1)
                   \div (ck.chunk_size - ck.overlap)

WindowFirst(k) == (k - 1) * (ck.chunk_size - ck.overlap) + 1

WindowLast(k) ==
    IF WindowFirst(k) + ck.chunk_size - 1 > Len(ck.text) THEN Len(ck.text)
    ELSE WindowFirst(k) + ck.chunk_size - 1

Window(k) == SubSeq(ck.text, WindowFirst(k), WindowLast(k))

\* The characters two windows that follow each other have in common.
Shared(k) == WindowLast(k) - WindowFirst(k + 1) + 1

\* C26, as the code has it: for overlap < chunk_size the call returns, after
\* one turn of the loop per window; the windows start at the multiples of
\* chunk_size - overlap, cover every character, and two that follow each
\* other share `overlap` characters unless the end of the text cuts the first
\* of them short. The chunks returned are these windows with the blanks at
\* their ends removed, the windows that are blank left out; the empty text
\* gives no chunk.
C26_ChunksAreStrippedWindows ==
    /\ []((ck.pc = "returned" /\ ck.overlap < ck.chunk_size)
            => LET stripped == [k \in 1..WindowCount |->
                                   Strip(Window(k), {" "})]
               IN  /\ ck.iterations = WindowCount
                   /\ ck.chunks = SelectSeq(stripped, LAMBDA c : c # <<>>)
                   /\ \A i \in DOMAIN ck.text :
                         \E k \in 1..WindowCount :
                             WindowFirst(k) <= i /\ i <= WindowLast(k)
                   /\ \A k \in 1..(WindowCount - 1) :
                         Shared(k) = IF WindowLast(k) = Len(ck.text)
                                     THEN Len(ck.text) - WindowFirst(k + 1) + 1
                                     ELSE ck.overlap
                   /\ ck.text = <<>> => ck.chunks = <<>>)
    /\ (ck.pc = "loop" /\ ck.overlap < ck.chunk_size) ~> (ck.pc = "returned")

\* A call with 0 < overlap < chunk_size has returned at least three chunks,
\* left a blank window out and returned a window without its blanks.
C26_Witness ==
    /\ ck.pc = "returned"
    /\ 0 < ck.overlap /\ ck.overlap < ck.chunk_size
    /\ Len(ck.chunks) >= 3
    /\ Len(ck.chunks) < ck.iterations
    /\ \E k \in 1..WindowCount :
          Strip(Window(k), {" "}) \notin {<<>>, Window(k)}

\* C26, as stated: the chunks returned are the windows themselves, so that
\* they hold every character of the text, and every pair that follows each
\* other, the last pair possibly excepted, shares exactly `overlap`
\* characters.
C26_ChunksCoverWithExactOverlap ==
    (ck.pc = "returned" /\ ck.overlap < ck.chunk_size)
        => /\ ck.chunks = [k \in 1..WindowCount |-> Window(k)]
           /\ \A k \in 1..(WindowCount - 2) : Shared(k) = ck.overlap

\* C29: the thumbnail stage leaves alone each of page_count, file_size and
\* mime_type that held a value before it (for file_size and mime_type: a
\* value other than 0 and the empty string, which the code takes for unset).
C29_BackfillOnlyWhenUnset ==
    \A k \in DOMAIN thumbs :
        LET t == thumbs[k] IN
        /\ t.before.page_count # Unset
              => t.after.page_count = t.before.page_count
        /\ ~NoSize(t.before.file_size)
              => t.after.file_size = t.before.file_size
        /\ ~NoType(t.before.mime_type)
              => t.after.mime_type = t.before.mime_type

====
